---- MODULE Spec2Model ----
(***************************************************************************)
(* Model of src/src/py/qwen_tts_server.py: the Qwen TTS FastAPI server.    *)
(*                                                                         *)
(* State: the module globals (model, MODEL_LOADED, HAS_PYTTSX3,            *)
(* VOICE_MAP), the temporary audio files on disk, and the request that is  *)
(* being answered.  Every handler is an `async def` without an await, so   *)
(* the event loop runs each handler to completion: one action per handler. *)
(*                                                                         *)
(* Numbers: a speed is kept in sixteenths (0.5 = 8, 1.0 = 16, 2.0 = 32),   *)
(* which are exact binary fractions, so int(200 * speed) in Python floats  *)
(* is exactly (200 * s) \div 16.  A float sample is kept in quarters       *)
(* (1.0 = 4), also exact binary fractions.                                 *)
(***************************************************************************)
EXTENDS Integers, Sequences, FiniteSets, TLC

VARIABLES
    started,       \* "pending" | "started" | "skipped": the lifespan startup hook
    HAS_PYTTSX3,   \* module global, set once by the import at lines 41-45
    model,         \* module global: None or the loaded model handle
    MODEL_LOADED,  \* module global flag
    VOICE_MAP,     \* module global dict: voice name -> pyttsx3 voice index
    tmp,           \* the temporary audio files that exist on disk
    loadLog,       \* from_pretrained calls made so far: <<[source, ok]>>
    req,           \* the request being answered (None when idle)
    resp,          \* its HTTP response (None when idle)
    calls,         \* backend calls made while handling it, in order
    healthSeen,    \* modelLoaded of the first /health answer after startup
    workers,       \* server processes on one host, each inside /synthesize
    shared         \* what the two fixed temporary paths hold on that host

vars == <<started, HAS_PYTTSX3, model, MODEL_LOADED, VOICE_MAP, tmp, loadLog,
          req, resp, calls, healthSeen, workers, shared>>

\* The state of one server process answering one request at a time
server == <<started, HAS_PYTTSX3, model, MODEL_LOADED, VOICE_MAP, tmp, loadLog,
            req, resp, calls, healthSeen>>

(***************************************************************************)
(* Bounds of the model.                                                    *)
(***************************************************************************)
MaxTextLen == 2
MaxSamples == 1
MaxFrames == 1
SampleRateHz == 7

(***************************************************************************)
(* Optional values: None is Python's None or an absent JSON field.         *)
(***************************************************************************)
None == <<>>
Some(x) == <<x>>
Opt(S) == {None} \cup {Some(x) : x \in S}
Get(o) == o[1]

(***************************************************************************)
(* Program constants.                                                      *)
(***************************************************************************)
MODEL_NAME == "Qwen3-TTS-VoiceDesign"
SPEED_DEFAULT == 16
One == SPEED_DEFAULT
SPEED_GE == 8
SPEED_LE == 32
base_rate == 200
TEMP_SYSTEM == "/tmp/qwen_tts_temp.wav"
TEMP_QWEN == "/tmp/qwen_tts_output.wav"
VOICE_MAP_INITIAL == [v \in {"default", "marrvin", "marlin", "daniel"} |->
    CASE v = "default" -> 0
      [] v = "marrvin" -> 0
      [] v = "marlin" -> 1
      [] v = "daniel" -> 2]

(***************************************************************************)
(* Text: a string is a sequence of characters.                             *)
(***************************************************************************)
Chars == {"a", " "}
Whitespace == {" "}
SeqsUpTo(S, n) == UNION {[1..k -> S] : k \in 0..n}
Texts == SeqsUpTo(Chars, MaxTextLen)

RECURSIVE lstrip(_)
lstrip(s) ==
    IF s # <<>> /\ Head(s) \in Whitespace THEN lstrip(Tail(s)) ELSE s

RECURSIVE rstrip(_)
rstrip(s) ==
    IF s # <<>> /\ s[Len(s)] \in Whitespace
    THEN rstrip(SubSeq(s, 1, Len(s) - 1))
    ELSE s

strip(s) == rstrip(lstrip(s))

(***************************************************************************)
(* ModelLoader: load_qwen_model, run once by the lifespan startup hook.    *)
(* le is what the host offers: the override path, the cache, and whether   *)
(* from_pretrained raises; le.caps is what the returned model exposes.     *)
(***************************************************************************)
Capabilities == {"generate_voice_design", "generate"}

\* path_set: QWEN_MODEL_PATH is set and not empty; path_exists is what
\* os.path.exists(model_path) gives, evaluated only when the path is set.
LoadEnv ==
    {le \in [path_set : BOOLEAN, path_exists : BOOLEAN, cached : BOOLEAN,
             raises : {FALSE}, caps : SUBSET Capabilities]
             \cup
             [path_set : BOOLEAN, path_exists : BOOLEAN, cached : BOOLEAN,
              raises : {TRUE}, caps : {{}}] :
        le.path_exists => le.path_set}

\* Variant: the override path is used whenever it is set.
LoadSource_PathWhenSet(le) ==
    IF le.path_set THEN "custom_path"
    ELSE IF le.cached THEN "cache"
    ELSE "download"

LoadSource(le) ==
    IF le.path_set /\ le.path_exists THEN "custom_path"
    ELSE IF le.cached THEN "cache"
    ELSE "download"

LoadedFlagOnFailure == HAS_PYTTSX3

load_qwen_model(le) ==
    /\ loadLog' = Append(loadLog, [source |-> LoadSource(le),
                                    path_set |-> le.path_set,
                                    path_exists |-> le.path_exists,
                                    cached |-> le.cached,
                                    ok |-> ~le.raises])
    /\ IF le.raises
       THEN /\ model' = model
            /\ MODEL_LOADED' = LoadedFlagOnFailure
       ELSE /\ model' = Some([caps |-> le.caps])
            /\ MODEL_LOADED' = TRUE

\* Variant: a failed load leaves the startup hook pending, to be run again.
lifespan_Retry ==
    /\ started = "pending"
    /\ \E le \in LoadEnv :
         /\ load_qwen_model(le)
         /\ started' = IF le.raises THEN "pending" ELSE "started"
    /\ UNCHANGED <<HAS_PYTTSX3, VOICE_MAP, tmp, req, resp, calls, healthSeen,
                   workers, shared>>

lifespan ==
    /\ started = "pending"
    /\ \E le \in LoadEnv : load_qwen_model(le)
    /\ started' = "started"
    /\ UNCHANGED <<HAS_PYTTSX3, VOICE_MAP, tmp, req, resp, calls, healthSeen,
                   workers, shared>>

(***************************************************************************)
(* Results of a backend: a returned (audio_data, sample_rate, duration_ms) *)
(* or a raised exception, with the backend calls made and the temporary    *)
(* files left on disk.                                                     *)
(***************************************************************************)
NoAudio == [nbytes |-> 0, enc |-> "none", nframes |-> 0, data |-> <<>>]

Returned(audio, rate, dur, cs, files) ==
    [ok |-> TRUE, audio_data |-> audio, sample_rate |-> rate,
     duration_ms |-> dur, error |-> "", calls |-> cs, tmp |-> files]

Raised(err, cs, files) ==
    [ok |-> FALSE, audio_data |-> NoAudio, sample_rate |-> 0,
     duration_ms |-> 0, error |-> err, calls |-> cs, tmp |-> files]

\* The end of a backend call, kept in the trace of calls after its start.
Outcome(fn, r) ==
    [fn |-> IF r.ok THEN "return" ELSE "raise", of |-> fn,
     audio_data |-> r.audio_data, sample_rate |-> r.sample_rate,
     duration_ms |-> r.duration_ms, error |-> r.error]

Ended(fn, r) == [r EXCEPT !.calls = Append(r.calls, Outcome(fn, r))]

(***************************************************************************)
(* SystemVoiceBackend: synthesize_with_system_tts.                         *)
(* se is what the host does: whether pyttsx3.init() raises, how many       *)
(* voices are installed, how runAndWait ends, and what the temporary file  *)
(* holds when it is read back.                                             *)
(***************************************************************************)
\* A file wave.open accepts holds at least the 44-byte RIFF/fmt/data header.
FileContents ==
    {[valid |-> FALSE, nbytes |-> 0, frames |-> 0, rate |-> 0],
     [valid |-> FALSE, nbytes |-> 10, frames |-> 0, rate |-> 0],
     [valid |-> TRUE, nbytes |-> 44, frames |-> 0, rate |-> 0]}
    \cup
    {[valid |-> TRUE, nbytes |-> 44 + 2 * f, frames |-> f,
      rate |-> SampleRateHz] : f \in 0..MaxFrames}

NoFile == [valid |-> FALSE, nbytes |-> 0, frames |-> 0, rate |-> 0]
InstalledVoices == {0, 2}

SystemEnv(files) ==
    {[init |-> "raise", nvoices |-> 0, run |-> "raise", file |-> NoFile]}
    \cup
    [init : {"ok"}, nvoices : InstalledVoices,
     run : {"raise", "raise_after_write"}, file : {NoFile}]
    \cup
    [init : {"ok"}, nvoices : InstalledVoices, run : {"ok"}, file : FileContents]
    \cup
    [init : {"ok"}, nvoices : InstalledVoices, run : {"nofile"},
     file : IF TEMP_SYSTEM \in files THEN FileContents ELSE {NoFile}]

\* Variant: a name that is not registered gets the last index.
VoiceIndex_UnknownLast(voice) ==
    IF voice \in DOMAIN VOICE_MAP THEN VOICE_MAP[voice] ELSE 2

VoiceIndex(voice) ==
    IF voice \in DOMAIN VOICE_MAP THEN VOICE_MAP[voice] ELSE 0

\* Variant: round() in place of int().
EngineRate_Rounded(speed) == (2 * base_rate * speed + One) \div (2 * One)

\* int(base_rate * speed): truncation of a positive product
EngineRate(speed) == (base_rate * speed) \div One

\* int(frames / rate * 1000): the float product is cut toward zero.  For the
\* counts and rates of this model the float result is the exact quotient.
DurationMs(frames, rate) == (frames * 1000) \div rate

\* Variant: the bytes are returned without opening them as a WAV file.
ReadBack_NoParse(audio_bytes, se, cs, files) ==
    IF TEMP_SYSTEM \notin files
    THEN Raised("FileNotFoundError", cs, files)
    ELSE Returned([nbytes |-> audio_bytes, enc |-> "file",
                   nframes |-> se.file.frames, data |-> <<>>],
                  SampleRateHz, 0, cs, files \ {TEMP_SYSTEM})

ReadBack(audio_bytes, se, cs, files) ==
    IF TEMP_SYSTEM \notin files
    THEN Raised("FileNotFoundError", cs, files)
    ELSE IF ~se.file.valid
    THEN Raised("wave.Error", cs, files \ {TEMP_SYSTEM})
    ELSE IF se.file.rate = 0
    THEN Raised("ZeroDivisionError", cs, files \ {TEMP_SYSTEM})
    ELSE Returned([nbytes |-> audio_bytes, enc |-> "file",
                   nframes |-> se.file.frames, data |-> <<>>],
                  se.file.rate,
                  DurationMs(se.file.frames, se.file.rate),
                  cs, files \ {TEMP_SYSTEM})

system_tts_body(text, voice, speed, se, cs0, files) ==
    LET entered == Append(cs0, [fn |-> "synthesize_with_system_tts",
                                text |-> text, voice |-> voice, speed |-> speed])
        voice_id == VoiceIndex(voice)
        chosen == IF se.nvoices > 0 /\ se.nvoices > voice_id
                  THEN Some(voice_id) ELSE None
        cs == Append(entered, [fn |-> "engine", text |-> text,
                               voice_id |-> voice_id, voice_set |-> chosen,
                               rate |-> EngineRate(speed)])
        written == IF se.run \in {"ok", "raise_after_write"}
                   THEN files \cup {TEMP_SYSTEM} ELSE files
    IN  IF ~HAS_PYTTSX3
        THEN Raised("TTS not available. Install pyttsx3: pip install pyttsx3",
                    entered, files)
        ELSE IF se.init = "raise"
        THEN Raised("pyttsx3.init failed", entered, files)
        ELSE IF se.run \in {"raise", "raise_after_write"}
        THEN Raised("runAndWait failed", cs, written)
        ELSE ReadBack(se.file.nbytes, se, cs, written)

synthesize_with_system_tts(text, voice, speed, se, cs0, files) ==
    Ended("synthesize_with_system_tts",
          system_tts_body(text, voice, speed, se, cs0, files))

(***************************************************************************)
(* AudioNormalizer: lines 238-252 of synthesize_with_qwen.                 *)
(* A waveform is [dtype, extra_axes, samples]: samples of a float dtype    *)
(* are in quarters, extra_axes counts leading axes of size 1.              *)
(***************************************************************************)
Dtypes == {"float32", "float64", "int16"}
SampleVals == {6}
Waveforms ==
    [dtype : Dtypes, extra_axes : {0, 1},
     samples : SeqsUpTo(SampleVals, MaxSamples)]

\* ndarray.squeeze() drops every axis of size 1: one sample behind an extra
\* axis becomes a 0-d array, which has no len().
HasLen(w) == ~(w.extra_axes > 0 /\ Len(w.samples) = 1)

Clip(v) == IF v < -4 THEN -4 ELSE IF v > 4 THEN 4 ELSE v

\* astype(np.int16) of a float in range truncates toward zero
TruncDiv(n, d) == IF n >= 0 THEN n \div d ELSE -((-n) \div d)

ToInt16(v) == TruncDiv(Clip(v) * 32767, 4)

Normalize(w) ==
    IF w.dtype \in {"float32", "float16"}
    THEN [dtype |-> "int16",
          samples |-> [i \in 1..Len(w.samples) |-> ToInt16(w.samples[i])]]
    ELSE [dtype |-> w.dtype, samples |-> w.samples]

\* scipy.io.wavfile.write: 44 header bytes and 2 bytes a sample for PCM16,
\* 58 header bytes and 8 bytes a sample for IEEE float64.
WavBytes(a) ==
    IF a.dtype = "int16" THEN 44 + 2 * Len(a.samples)
    ELSE 58 + 8 * Len(a.samples)

WavEncoding(a) == IF a.dtype = "int16" THEN "pcm16" ELSE a.dtype

(***************************************************************************)
(* NeuralBackend: synthesize_with_qwen.                                    *)
(* ne is what the model and the disk do: whether generation raises or      *)
(* returns something that is no (waveform, rate) pair, the waveform and    *)
(* rate it returns, and whether writing or reading the temp file fails:    *)
(* wavfile.write opens the file and then writes, so it fails before the    *)
(* file exists (write_fail) or after (write_partial).                      *)
(***************************************************************************)
AnyWave == [dtype |-> "float32", extra_axes |-> 0, samples |-> <<>>]

NeuralEnv ==
    [gen : {"raise", "malformed"}, wav : {AnyWave}, rate : {0}, io : {"ok"}]
    \cup
    [gen : {"ok"}, wav : Waveforms, rate : {SampleRateHz}, io : {"ok"}]
    \cup
    [gen : {"ok"}, wav : {AnyWave}, rate : {SampleRateHz},
     io : {"write_fail", "write_partial", "read_fail"}]
    \cup
    [gen : {"ok"}, wav : {AnyWave}, rate : {0}, io : {"ok"}]

DEFAULT_INSTRUCT == "Speak in a natural, clear voice"
SENTINEL == "speak normally"

\* Variant: only the sentinel is replaced.
VoiceInstruct_SentinelOnly(prosody) ==
    IF prosody # SENTINEL THEN prosody ELSE DEFAULT_INSTRUCT

VoiceInstruct(prosody) ==
    IF prosody # "" /\ prosody # SENTINEL THEN prosody ELSE DEFAULT_INSTRUCT

\* Variant: plain generation is looked for first.
GenerationCall_PlainFirst(m, text, voice, prosody) ==
    IF "generate" \in m.caps
    THEN Some([fn |-> "generate", text |-> text, language |-> "English",
               speaker |-> voice])
    ELSE IF "generate_voice_design" \in m.caps
    THEN Some([fn |-> "generate_voice_design", text |-> text,
               language |-> "English", speaker |-> voice,
               instruct |-> VoiceInstruct(prosody)])
    ELSE None

GenerationCall(m, text, voice, prosody) ==
    IF "generate_voice_design" \in m.caps
    THEN Some([fn |-> "generate_voice_design", text |-> text,
               language |-> "English", speaker |-> voice,
               instruct |-> VoiceInstruct(prosody)])
    ELSE IF "generate" \in m.caps
    THEN Some([fn |-> "generate", text |-> text, language |-> "English",
               speaker |-> voice])
    ELSE None

\* The try block of synthesize_with_qwen, lines 211-266.
qwen_try_body(m, text, voice, prosody, ne, cs0, files) ==
    LET gc == GenerationCall(m, text, voice, prosody)
        cs == IF gc = None THEN cs0 ELSE Append(cs0, Get(gc))
        a == Normalize(ne.wav)
    IN  IF gc = None
        THEN Raised("Model has no known generation method", cs, files)
        ELSE IF ne.gen = "raise"
        THEN Raised("generation failed", cs, files)
        ELSE IF ne.gen = "malformed"
        THEN Raised("ValueError", cs, files)
        ELSE IF ~HasLen(ne.wav)
        THEN Raised("TypeError: len() of unsized object", cs, files)
        ELSE IF ne.rate = 0
        THEN Raised("ZeroDivisionError", cs, files)
        ELSE IF ne.io = "write_fail"
        THEN Raised("OSError: write", cs, files)
        ELSE IF ne.io = "write_partial"
        THEN Raised("OSError: write", cs, files \cup {TEMP_QWEN})
        ELSE IF ne.io = "read_fail"
        THEN Raised("OSError: read", cs, files \cup {TEMP_QWEN})
        ELSE Returned([nbytes |-> WavBytes(a), enc |-> WavEncoding(a),
                       nframes |-> Len(a.samples), data |-> a.samples],
                      ne.rate, DurationMs(Len(a.samples), ne.rate),
                      cs, files \ {TEMP_QWEN})

\* Variant: a failed attempt is made once more.
qwen_try_Retry(m, text, voice, prosody, ne, cs0, files) ==
    LET t == Ended("qwen_try",
                   qwen_try_body(m, text, voice, prosody, ne, cs0, files))
    IN  IF t.ok THEN t
        ELSE Ended("qwen_try",
                   qwen_try_body(m, text, voice, prosody, ne, t.calls, t.tmp))

qwen_try(m, text, voice, prosody, ne, cs0, files) ==
    Ended("qwen_try", qwen_try_body(m, text, voice, prosody, ne, cs0, files))

\* Variant: with no model the neural backend raises to its caller.
synthesize_with_qwen_RaiseNoModel(text, voice, prosody, speed, ne, se, cs0, files) ==
    LET entered == Append(cs0, [fn |-> "synthesize_with_qwen", text |-> text,
                                voice |-> voice, prosody |-> prosody,
                                speed |-> speed])
    IN  IF model = None
        THEN Ended("qwen_try", Raised("Qwen model not loaded", entered, files))
        ELSE LET t == qwen_try(Get(model), text, voice, prosody, ne,
                               entered, files)
             IN  IF t.ok THEN t
                 ELSE synthesize_with_system_tts(text, voice, speed, se,
                                                 t.calls, t.tmp)

\* Variant: the speed is applied to the duration of the neural audio.
synthesize_with_qwen_SpeedScaled(text, voice, prosody, speed, ne, se, cs0, files) ==
    LET entered == Append(cs0, [fn |-> "synthesize_with_qwen", text |-> text,
                                voice |-> voice, prosody |-> prosody,
                                speed |-> speed])
    IN  IF model = None
        THEN synthesize_with_system_tts(text, voice, speed, se, entered, files)
        ELSE LET t == qwen_try(Get(model), text, voice, prosody, ne,
                               entered, files)
             IN  IF t.ok
                 THEN [t EXCEPT !.duration_ms = (t.duration_ms * One) \div speed]
                 ELSE synthesize_with_system_tts(text, voice, speed, se,
                                                 t.calls, t.tmp)

\* Variant: the fallback is called with the default speed.
synthesize_with_qwen_DefaultSpeed(text, voice, prosody, speed, ne, se, cs0, files) ==
    LET entered == Append(cs0, [fn |-> "synthesize_with_qwen", text |-> text,
                                voice |-> voice, prosody |-> prosody,
                                speed |-> speed])
    IN  IF model = None
        THEN synthesize_with_system_tts(text, voice, speed, se, entered, files)
        ELSE LET t == qwen_try(Get(model), text, voice, prosody, ne,
                               entered, files)
             IN  IF t.ok THEN t
                 ELSE synthesize_with_system_tts(text, voice, SPEED_DEFAULT,
                                                 se, t.calls, t.tmp)

\* Variant: the except clause re-raises instead of falling back.
synthesize_with_qwen_NoFallback(text, voice, prosody, speed, ne, se, cs0, files) ==
    LET entered == Append(cs0, [fn |-> "synthesize_with_qwen", text |-> text,
                                voice |-> voice, prosody |-> prosody,
                                speed |-> speed])
    IN  IF model = None
        THEN synthesize_with_system_tts(text, voice, speed, se, entered, files)
        ELSE qwen_try(Get(model), text, voice, prosody, ne, entered, files)

synthesize_with_qwen(text, voice, prosody, speed, ne, se, cs0, files) ==
    LET entered == Append(cs0, [fn |-> "synthesize_with_qwen", text |-> text,
                                voice |-> voice, prosody |-> prosody,
                                speed |-> speed])
    IN  IF model = None
        THEN synthesize_with_system_tts(text, voice, speed, se, entered, files)
        ELSE LET t == qwen_try(Get(model), text, voice, prosody, ne,
                               entered, files)
             IN  IF t.ok THEN t
                 ELSE synthesize_with_system_tts(text, voice, speed, se,
                                                 t.calls, t.tmp)

(***************************************************************************)
(* POST /synthesize.                                                       *)
(* A JSON body gives each field or leaves it out; TTSRequest is the        *)
(* pydantic model that validates it and fills in the defaults.             *)
(***************************************************************************)
VoiceNames == {"marlin", "marrvin", "daniel", "custom_x_deadbeef"}
Prosodies == {"whisper", "", "speak normally"}
Speeds == {7, 8, 9, 32, 33}
Formats == {"mp3"}

SynthesizeBodies ==
    [text : Opt(Texts), voice : Opt(VoiceNames),
     prosody_instruction : Opt(Prosodies), speed : Opt(Speeds),
     output_format : Opt(Formats)]

Default(o, d) == IF o = None THEN d ELSE Get(o)

\* Variant: gt/lt in place of ge/le.
SpeedInRange_Exclusive(s) == s > SPEED_GE /\ s < SPEED_LE

SpeedInRange(s) == s >= SPEED_GE /\ s <= SPEED_LE

SchemaValid(body) ==
    /\ body.text # None
    /\ body.speed # None => SpeedInRange(Get(body.speed))

TTSRequest(body) ==
    [text |-> Get(body.text),
     voice |-> Default(body.voice, "default"),
     prosody_instruction |-> Default(body.prosody_instruction, SENTINEL),
     speed |-> Default(body.speed, SPEED_DEFAULT),
     output_format |-> Default(body.output_format, "wav")]

\* Variant: the whitespace test left out.
TextIsEmpty_NoStrip(text) == text = <<>>

TextIsEmpty(text) == text = <<>> \/ strip(text) = <<>>

\* base64.b64encode: four characters for every three bytes, padded
b64encode(audio) ==
    [len |-> 4 * ((audio.nbytes + 2) \div 3), decoded |-> audio]

HTTPException(code, detail, cs, files) ==
    [resp |-> [status |-> code, detail |-> detail], calls |-> cs, tmp |-> files]

\* Variant: the system voice is always chosen.
UsesQwen_Never == FALSE

UsesQwen == MODEL_LOADED

Backend(request, ne, se) ==
    IF UsesQwen
    THEN synthesize_with_qwen(request.text, request.voice,
                              request.prosody_instruction, request.speed,
                              ne, se, <<>>, tmp)
    ELSE synthesize_with_system_tts(request.text, request.voice,
                                    request.speed, se, <<>>, tmp)

synthesize(body, ne, se) ==
    IF ~SchemaValid(body)
    THEN HTTPException(422, "validation error", <<>>, tmp)
    ELSE LET request == TTSRequest(body)
         IN  IF TextIsEmpty(request.text)
             THEN HTTPException(400, "Text is required", <<>>, tmp)
             ELSE LET r == Backend(request, ne, se)
                  IN  IF r.ok
                      THEN [resp |-> [status |-> 200,
                                      audio_data |-> b64encode(r.audio_data),
                                      duration_ms |-> r.duration_ms,
                                      sample_rate |-> r.sample_rate,
                                      format |-> request.output_format],
                            calls |-> r.calls, tmp |-> r.tmp]
                      ELSE HTTPException(500, "Synthesis failed", r.calls, r.tmp)

\* The outcomes of the host that handling this body consults.
ReachesBackend(body) ==
    SchemaValid(body) /\ ~TextIsEmpty(TTSRequest(body).text)

AnyNeural == [gen |-> "raise", wav |-> AnyWave, rate |-> 0, io |-> "ok"]
AnySystem == [init |-> "raise", nvoices |-> 0, run |-> "raise", file |-> NoFile]

Consulted(body, NE, SE) ==
    IF ~ReachesBackend(body) THEN {<<AnyNeural, AnySystem>>}
    ELSE IF MODEL_LOADED /\ model # None
    THEN LET request == TTSRequest(body)
             Try(ne) == qwen_try(Get(model), request.text, request.voice,
                                 request.prosody_instruction, ne, <<>>, tmp)
         IN  {<<ne, AnySystem>> : ne \in {n \in NE : Try(n).ok}}
             \cup ({n \in NE : ~Try(n).ok} \X SE)
    ELSE {AnyNeural} \X SE

\* The cases explored: every body against a nominal host (the model answers
\* or raises, the engine answers or is not there), and the probe bodies
\* against every outcome of the host.
NominalNeural ==
    {AnyNeural,
     [gen |-> "ok", wav |-> [dtype |-> "float32", extra_axes |-> 0,
                             samples |-> <<6>>],
      rate |-> SampleRateHz, io |-> "ok"]}

NominalSystem ==
    {AnySystem,
     [init |-> "ok", nvoices |-> 2, run |-> "ok",
      file |-> [valid |-> TRUE, nbytes |-> 46, frames |-> 1,
                rate |-> SampleRateHz]]}

ProbeBodies ==
    {[text |-> Some(<<"a">>), voice |-> None, prosody_instruction |-> None,
      speed |-> None, output_format |-> None],
     [text |-> Some(<<" ", "a">>), voice |-> Some("marlin"),
      prosody_instruction |-> Some("whisper"), speed |-> Some(9),
      output_format |-> Some("mp3")]}

HostCases(body) ==
    Consulted(body, NominalNeural, NominalSystem)
    \cup (IF body \in ProbeBodies
          THEN Consulted(body, NeuralEnv, SystemEnv(tmp))
          ELSE {})

\* The bodies explored: every text with no speed and with speed 2.0, every
\* speed with no text, a blank text and a text, every voice, prosody and
\* format with one text, and the probe bodies.
SynthesizeCases ==
    {b \in SynthesizeBodies :
        \/ /\ b.voice = None
           /\ b.prosody_instruction = None
           /\ b.output_format = None
           /\ \/ b.speed \in {None, Some(SPEED_LE)}
              \/ b.text \in {None, Some(<<" ">>), Some(<<"a">>)}
        \/ /\ b.text = Some(<<"a">>)
           /\ b.speed \in {None, Some(9)}}
    \cup ProbeBodies

\* Variant: requests are accepted while the startup hook has not run.
Serving_WhileLoading == resp = None

Serving == started # "pending" /\ resp = None

\* Variant: a neural failure clears the flag.
FlagClearedOnFailure(cs) ==
    MODEL_LOADED /\ \A i \in 1..Len(cs) : cs[i].fn # "raise"

\* synthesize declares no global: the flag is read, never written.
FlagAfterSynthesize(cs) == MODEL_LOADED

\* Variant: a neural failure drops the model handle.
ModelDroppedOnFailure(cs) ==
    IF \E i \in 1..Len(cs) : cs[i].fn = "raise" /\ cs[i].of = "qwen_try"
    THEN None ELSE model

\* synthesize_with_qwen declares `global model` and only reads it.
ModelAfterSynthesize(cs) == model

Synthesize ==
    /\ Serving
    /\ \E body \in SynthesizeCases :
         \E e \in HostCases(body) :
            LET out == synthesize(body, e[1], e[2])
            IN  /\ req' = Some([endpoint |-> "/synthesize", body |-> body,
                                host |-> e])
                /\ resp' = Some(out.resp)
                /\ calls' = out.calls
                /\ tmp' = out.tmp
                /\ MODEL_LOADED' = FlagAfterSynthesize(out.calls)
                /\ model' = ModelAfterSynthesize(out.calls)
    /\ UNCHANGED <<started, HAS_PYTTSX3, VOICE_MAP, loadLog, healthSeen,
                   workers, shared>>

(***************************************************************************)
(* GET /health and GET /.                                                  *)
(***************************************************************************)
DEFAULT_PORT == 7860

health_check ==
    [status |-> 200, body_status |-> "healthy", model_loaded |-> MODEL_LOADED,
     model_name |-> IF MODEL_LOADED THEN Some(MODEL_NAME) ELSE None,
     port |-> DEFAULT_PORT]

Health ==
    /\ Serving
    /\ req' = Some([endpoint |-> "/health"])
    /\ resp' = Some(health_check)
    /\ calls' = <<>>
    /\ healthSeen' = IF healthSeen = None THEN Some(health_check.model_loaded)
                     ELSE healthSeen
    /\ UNCHANGED <<started, HAS_PYTTSX3, model, MODEL_LOADED, VOICE_MAP, tmp,
                   loadLog, workers, shared>>

root ==
    [status |-> 200, service |-> "Qwen TTS Server", body_status |-> "running",
     model_loaded |-> MODEL_LOADED, version |-> "1.0.0"]

Root ==
    /\ Serving
    /\ req' = Some([endpoint |-> "/"])
    /\ resp' = Some(root)
    /\ calls' = <<>>
    /\ UNCHANGED <<started, HAS_PYTTSX3, model, MODEL_LOADED, VOICE_MAP, tmp,
                   loadLog, healthSeen, workers, shared>>

(***************************************************************************)
(* POST /clone-voice: a stub that checks the reference path and returns a  *)
(* placeholder voice id.                                                   *)
(***************************************************************************)
ReferencePaths == {"/ref.wav", "/nonexistent"}
CloneNames == {"My Voice", "x"}
Uuids == {"deadbeef", "0a1b2c3d"}

CloneBodies ==
    [reference_audio_path : Opt(ReferencePaths), voice_name : Opt(CloneNames)]

CloneSchemaValid(body) ==
    body.reference_audio_path # None /\ body.voice_name # None

\* voice_name.lower().replace(' ', '_')
LowerUnderscore(name) ==
    CASE name = "My Voice" -> "my_voice"
      [] name = "x" -> "x"

StubVoiceId(name, uuid) == "custom_" \o LowerUnderscore(name) \o "_" \o uuid

\* Variant: the stub id is stored as a voice.
RegistryWithClone(voice_id) ==
    [v \in DOMAIN VOICE_MAP \cup {voice_id} |->
        IF v \in DOMAIN VOICE_MAP THEN VOICE_MAP[v] ELSE 0]

RegistryAfterClone(voice_id) == VOICE_MAP

clone_voice(body, exists, uuid) ==
    IF ~CloneSchemaValid(body)
    THEN [status |-> 422, detail |-> "validation error"]
    ELSE IF ~exists
    THEN [status |-> 404, detail |-> "Reference audio not found"]
    ELSE [status |-> 200, body_status |-> "pending",
          voice_id |-> Some(StubVoiceId(Get(body.voice_name), uuid))]

CloneVoice ==
    /\ Serving
    /\ \E body \in CloneBodies, exists \in BOOLEAN, uuid \in Uuids :
         LET out == clone_voice(body, exists, uuid)
         IN  /\ req' = Some([endpoint |-> "/clone-voice", body |-> body,
                             path_exists |-> exists])
             /\ resp' = Some(out)
             /\ VOICE_MAP' = IF out.status = 200
                             THEN RegistryAfterClone(Get(out.voice_id))
                             ELSE VOICE_MAP
    /\ calls' = <<>>
    /\ UNCHANGED <<started, HAS_PYTTSX3, model, MODEL_LOADED, tmp, loadLog,
                   healthSeen, workers, shared>>

\* The client has its answer; the server is idle again.
Respond ==
    /\ resp # None
    /\ req' = None
    /\ resp' = None
    /\ calls' = <<>>
    /\ UNCHANGED <<started, HAS_PYTTSX3, model, MODEL_LOADED, VOICE_MAP, tmp,
                   loadLog, healthSeen, workers, shared>>

(***************************************************************************)
(* Several server processes on one host.  Inside one process a handler     *)
(* runs to completion, but /tmp belongs to the host: two processes started *)
(* from the __main__ block (lines 424-433, one per QWEN_SERVER_PORT) write *)
(* the same two fixed paths.  A worker is one process inside /synthesize;  *)
(* its steps are the file operations of the two backends, and what a file  *)
(* holds is named by the request that wrote it.                            *)
(***************************************************************************)
Workers == {1, 2}
ConcurrentTexts == {<<"a">>, <<"a", "a">>}

Idle == [pc |-> "idle", text |-> <<>>, audio |-> None, meta |-> None,
         status |-> 0]

Own(w) == [by |-> w, text |-> workers[w].text]

Goto(w, pc) == workers' = [workers EXCEPT ![w].pc = pc]

\* A request arrives; MODEL_LOADED of that process picks the backend.
Arrive(w) ==
    /\ workers[w].pc = "idle"
    /\ \E text \in ConcurrentTexts, pc \in {"q_start", "s_start"} :
         workers' = [workers EXCEPT ![w] = [Idle EXCEPT !.pc = pc,
                                                        !.text = text]]
    /\ UNCHANGED shared
    /\ UNCHANGED server

\* wavfile.write(temp_file, sample_rate, audio_array), line 256
WavfileWrite(w) ==
    /\ workers[w].pc = "q_start"
    /\ shared' = [shared EXCEPT ![TEMP_QWEN] = Some(Own(w))]
    /\ Goto(w, "q_written")
    /\ UNCHANGED server

\* open(temp_file, 'rb').read(), lines 259-260; the except clause falls back
QwenRead(w) ==
    /\ workers[w].pc = "q_written"
    /\ workers' = IF shared[TEMP_QWEN] = None
                  THEN [workers EXCEPT ![w].pc = "s_start"]
                  ELSE [workers EXCEPT ![w].pc = "q_read",
                                       ![w].audio = shared[TEMP_QWEN]]
    /\ UNCHANGED shared
    /\ UNCHANGED server

\* os.remove(temp_file) and return, lines 263-266: the duration and the
\* sample rate come from the array, not from the file
QwenRemove(w) ==
    /\ workers[w].pc = "q_read"
    /\ IF shared[TEMP_QWEN] = None
       THEN /\ workers' = [workers EXCEPT ![w].pc = "s_start",
                                          ![w].audio = None]
            /\ UNCHANGED shared
       ELSE /\ shared' = [shared EXCEPT ![TEMP_QWEN] = None]
            /\ workers' = [workers EXCEPT ![w].pc = "done",
                                          ![w].meta = Some(Own(w)),
                                          ![w].status = 200]
    /\ UNCHANGED server

\* synthesize_with_system_tts up to runAndWait, lines 148-173
SaveToFile(w) ==
    /\ workers[w].pc = "s_start"
    /\ IF ~HAS_PYTTSX3
       THEN /\ workers' = [workers EXCEPT ![w].pc = "done", ![w].status = 500]
            /\ UNCHANGED shared
       ELSE /\ shared' = [shared EXCEPT ![TEMP_SYSTEM] = Some(Own(w))]
            /\ Goto(w, "s_written")
    /\ UNCHANGED server

\* open(temp_file, 'rb').read(), lines 177-178
SysRead(w) ==
    /\ workers[w].pc = "s_written"
    /\ workers' = IF shared[TEMP_SYSTEM] = None
                  THEN [workers EXCEPT ![w].pc = "s_except"]
                  ELSE [workers EXCEPT ![w].pc = "s_read",
                                       ![w].audio = shared[TEMP_SYSTEM]]
    /\ UNCHANGED shared
    /\ UNCHANGED server

\* wave.open(temp_file): frames and rate of what the file holds now
WaveOpen(w) ==
    /\ workers[w].pc = "s_read"
    /\ workers' = IF shared[TEMP_SYSTEM] = None
                  THEN [workers EXCEPT ![w].pc = "s_except"]
                  ELSE [workers EXCEPT ![w].pc = "s_parsed",
                                       ![w].meta = shared[TEMP_SYSTEM]]
    /\ UNCHANGED shared
    /\ UNCHANGED server

\* os.remove(temp_file) and return, lines 190-192
SysRemove(w) ==
    /\ workers[w].pc = "s_parsed"
    /\ IF shared[TEMP_SYSTEM] = None
       THEN Goto(w, "s_except") /\ UNCHANGED shared
       ELSE /\ shared' = [shared EXCEPT ![TEMP_SYSTEM] = None]
            /\ workers' = [workers EXCEPT ![w].pc = "done", ![w].status = 200]
    /\ UNCHANGED server

\* the except clause, lines 193-197, and the handler's 500
SysExcept(w) ==
    /\ workers[w].pc = "s_except"
    /\ shared' = [shared EXCEPT ![TEMP_SYSTEM] = None]
    /\ workers' = [workers EXCEPT ![w].pc = "done", ![w].status = 500,
                                  ![w].audio = None, ![w].meta = None]
    /\ UNCHANGED server

Reply(w) ==
    /\ workers[w].pc = "done"
    /\ workers' = [workers EXCEPT ![w] = Idle]
    /\ UNCHANGED shared
    /\ UNCHANGED server

NoWorkers == [w \in Workers |-> Idle]
NoShared == [p \in {TEMP_SYSTEM, TEMP_QWEN} |-> None]

NextConcurrent ==
    \/ \E w \in Workers : Arrive(w)
    \/ \E w \in Workers : WavfileWrite(w)
    \/ \E w \in Workers : QwenRead(w)
    \/ \E w \in Workers : QwenRemove(w)
    \/ \E w \in Workers : SaveToFile(w)
    \/ \E w \in Workers : SysRead(w)
    \/ \E w \in Workers : WaveOpen(w)
    \/ \E w \in Workers : SysRemove(w)
    \/ \E w \in Workers : SysExcept(w)
    \/ \E w \in Workers : Reply(w)

(***************************************************************************)
(* Reading the request being answered.                                     *)
(***************************************************************************)
Answering(endpoint) == req # None /\ Get(req).endpoint = endpoint
TheBody == Get(req).body
TheResp == Get(resp)
TheRequest == TTSRequest(TheBody)
TheHost == Get(req).host

OnlyWhitespace(text) == \A i \in 1..Len(text) : text[i] \in Whitespace

CallsOf(fn) == {i \in 1..Len(calls) : calls[i].fn = fn}
EndsOf(fn, how) ==
    {i \in 1..Len(calls) : calls[i].fn = how /\ calls[i].of = fn}
OutcomeIndexes == {i \in 1..Len(calls) : calls[i].fn \in {"return", "raise"}}

NeuralFailed == EndsOf("qwen_try", "raise") # {}
SystemInvoked == CallsOf("synthesize_with_system_tts") # {}
SystemFailed == EndsOf("synthesize_with_system_tts", "raise") # {}
GenerationCalls == CallsOf("generate_voice_design") \cup CallsOf("generate")

HandleLoaded == MODEL_LOADED /\ model # None
LoadFailed == loadLog # <<>> /\ ~loadLog[Len(loadLog)].ok

Init ==
    /\ started \in {"pending", "skipped"}
    /\ HAS_PYTTSX3 \in BOOLEAN
    /\ model = None
    /\ MODEL_LOADED = FALSE
    /\ VOICE_MAP = VOICE_MAP_INITIAL
    /\ tmp = {}
    /\ loadLog = <<>>
    /\ req = None
    /\ resp = None
    /\ calls = <<>>
    /\ healthSeen = None
    /\ workers = NoWorkers
    /\ shared = NoShared

Next ==
    \/ lifespan
    \/ Synthesize
    \/ Health
    \/ Root
    \/ CloneVoice
    \/ Respond

Spec == Init /\ [][Next]_vars

SpecConcurrent == Init /\ [][NextConcurrent]_vars

(***************************************************************************)
(* C1: a /synthesize request whose text is empty or only whitespace, and   *)
(* whose other fields pass the schema, is answered 400 'Text is required'  *)
(* and no backend is called, in every model load state.                    *)
(***************************************************************************)
C1_BlankTextRejected ==
    (/\ Answering("/synthesize")
     /\ TheBody.text # None
     /\ OnlyWhitespace(Get(TheBody.text))
     /\ TheBody.speed # None => Get(TheBody.speed) \in 8..32)
    => /\ TheResp.status = 400
       /\ TheResp.detail = "Text is required"
       /\ calls = <<>>

C1_Witness ==
    /\ Answering("/synthesize")
    /\ TheBody.text = Some(<<" ", " ">>)
    /\ HandleLoaded
    /\ TheResp.status = 400
    /\ calls = <<>>

(***************************************************************************)
(* C2: /synthesize answers 422 exactly when text is missing or speed is    *)
(* outside [0.5, 2.0]; a 422 calls no backend; speeds 0.5 and 2.0 are      *)
(* accepted and, with a text that is not blank, reach a backend.           *)
(***************************************************************************)
C2_SchemaRejection ==
    Answering("/synthesize") =>
        LET missing == TheBody.text = None
            outside == /\ TheBody.speed # None
                       /\ (Get(TheBody.speed) < 8 \/ Get(TheBody.speed) > 32)
        IN  /\ TheResp.status = 422 <=> (missing \/ outside)
            /\ TheResp.status = 422 => calls = <<>>
            /\ (/\ ~missing
                /\ ~OnlyWhitespace(Get(TheBody.text))
                /\ TheBody.speed \in {Some(8), Some(32)})
               => calls # <<>> /\ TheResp.status \in {200, 500}

C2_Witness ==
    /\ Answering("/synthesize")
    /\ TheBody.speed = Some(32)
    /\ TheBody.text = Some(<<"a", " ">>)
    /\ TheResp.status = 200
    /\ calls # <<>>

(***************************************************************************)
(* C3: with a model loaded, when the neural backend fails for any reason   *)
(* during a valid request, the system-voice backend is called with the     *)
(* same text, voice and speed, and the response is what that backend       *)
(* yields: 200 with its audio, sample rate and duration, or 500 when it    *)
(* fails too.                                                              *)
(***************************************************************************)
C3_FallbackTransparent ==
    (Answering("/synthesize") /\ HandleLoaded /\ NeuralFailed) =>
        \E f \in EndsOf("qwen_try", "raise") :
            /\ Len(calls) > f + 1
            /\ calls[f + 1].fn = "synthesize_with_system_tts"
            /\ calls[f + 1].text = Get(TheBody.text)
            /\ calls[f + 1].voice = TheRequest.voice
            /\ calls[f + 1].speed = TheRequest.speed
            /\ LET last == calls[Len(calls)]
               IN  /\ last.of = "synthesize_with_system_tts"
                   /\ last.fn = "return" =>
                        /\ TheResp.status = 200
                        /\ TheResp.audio_data.decoded = last.audio_data
                        /\ TheResp.sample_rate = last.sample_rate
                        /\ TheResp.duration_ms = last.duration_ms
                   /\ last.fn = "raise" => TheResp.status = 500

C3_Witness ==
    /\ Answering("/synthesize")
    /\ HandleLoaded
    /\ \E f \in EndsOf("qwen_try", "raise") : calls[f].error = "OSError: read"
    /\ TheRequest.speed = 9
    /\ TheResp.status = 200

(***************************************************************************)
(* C4: a request with a text that is not blank and a speed in [0.5, 2.0]   *)
(* is answered 200 with a non-empty base64 payload and durationMs >= 0, or *)
(* 500; never 200 with an empty payload.                                   *)
(***************************************************************************)
C4_AudioOrFailure ==
    (/\ Answering("/synthesize")
     /\ TheBody.text # None
     /\ ~OnlyWhitespace(Get(TheBody.text))
     /\ TheBody.speed # None => Get(TheBody.speed) \in 8..32)
    => \/ TheResp.status = 500
       \/ /\ TheResp.status = 200
          /\ TheResp.audio_data.len > 0
          /\ TheResp.audio_data.decoded.nbytes > 0
          /\ TheResp.duration_ms >= 0

C4_Witness ==
    /\ Answering("/synthesize")
    /\ TheResp.status = 200
    /\ TheResp.audio_data.decoded.nframes = 0
    /\ TheResp.audio_data.len > 0
    /\ TheResp.duration_ms = 0

(***************************************************************************)
(* C5: which backend serves a valid request depends on the load state      *)
(* alone.  With a model loaded the neural attempt comes before any         *)
(* system-voice call; with no model (never loaded, or the load failed) the *)
(* system-voice backend is the first to work and no generation call is     *)
(* made.                                                                   *)
(***************************************************************************)
PassedValidation ==
    /\ Answering("/synthesize")
    /\ TheBody.text # None
    /\ ~OnlyWhitespace(Get(TheBody.text))
    /\ TheBody.speed # None => Get(TheBody.speed) \in 8..32

C5_SelectionByLoadState ==
    PassedValidation =>
        /\ HandleLoaded =>
             \E t \in OutcomeIndexes :
                /\ calls[t].of = "qwen_try"
                /\ \A j \in 1..t :
                     calls[j].fn \notin {"synthesize_with_system_tts", "engine"}
                /\ Get(model).caps # {} =>
                     \E g \in GenerationCalls : g < t
        /\ model = None =>
             /\ GenerationCalls = {}
             /\ \A i \in OutcomeIndexes : calls[i].of # "qwen_try"
             /\ \E k \in CallsOf("synthesize_with_system_tts") :
                   /\ \A j \in 1..(k - 1) : calls[j].fn = "synthesize_with_qwen"
                   /\ calls[k].text = Get(TheBody.text)
                   /\ calls[k].voice = TheRequest.voice
                   /\ calls[k].speed = TheRequest.speed
        /\ ~MODEL_LOADED => calls[1].fn = "synthesize_with_system_tts"
        /\ HandleLoaded \/ model = None

C5_Witness ==
    /\ PassedValidation
    /\ HandleLoaded
    /\ calls[2].fn = "generate"
    /\ ~SystemInvoked
    /\ TheResp.status = 200

(***************************************************************************)
(* C6: a request that passed validation is answered 500 'Synthesis failed' *)
(* if and only if the system-voice backend was called and failed; every    *)
(* other path answers 200.                                                 *)
(***************************************************************************)
C6_FailureIffSystemFailed ==
    PassedValidation =>
        /\ TheResp.status \in {200, 500}
        /\ TheResp.status = 500 <=> (SystemInvoked /\ SystemFailed)
        /\ TheResp.status = 500 => TheResp.detail = "Synthesis failed"

C6_Witness ==
    /\ PassedValidation
    /\ HandleLoaded
    /\ NeuralFailed
    /\ SystemFailed
    /\ TheResp.status = 500

(***************************************************************************)
(* C7: every /health answer says 'healthy' and carries the modelLoaded     *)
(* value of the first /health answer, whatever requests came in between.   *)
(***************************************************************************)
C7_HealthStable ==
    Answering("/health") =>
        /\ TheResp.status = 200
        /\ TheResp.body_status = "healthy"
        /\ healthSeen # None
        /\ TheResp.model_loaded = Get(healthSeen)

C7_Witness ==
    /\ Answering("/health")
    /\ started = "started"
    /\ tmp # {}
    /\ healthSeen = Some(TRUE)
    /\ TheResp.model_loaded

(***************************************************************************)
(* C8: a failed load does not stop startup: the server starts with no      *)
(* model handle, the load is attempted once and never again, and every     *)
(* valid synthesis request is then served by the system-voice backend      *)
(* without a neural generation call.                                       *)
(***************************************************************************)
C8_LoadFailureContained ==
    /\ loadLog # <<>> => started = "started" /\ Len(loadLog) = 1
    /\ LoadFailed =>
         /\ model = None
         /\ PassedValidation =>
              /\ GenerationCalls = {}
              /\ \A i \in OutcomeIndexes :
                    calls[i].of = "synthesize_with_system_tts"
              /\ SystemInvoked

C8_Witness ==
    /\ LoadFailed
    /\ started = "started"
    /\ HAS_PYTTSX3
    /\ PassedValidation
    /\ SystemInvoked
    /\ TheResp.status = 200

(***************************************************************************)
(* C9: a request that gives only text gets voice 'default', prosody        *)
(* 'speak normally', speed 1.0 and format 'wav'; served by the system      *)
(* voice it sets voice index 0 and rate 200; and for every speed the       *)
(* engine rate is 200 * speed cut to an integer.                           *)
(***************************************************************************)
OnlyText ==
    /\ TheBody.text # None
    /\ TheBody.voice = None
    /\ TheBody.prosody_instruction = None
    /\ TheBody.speed = None
    /\ TheBody.output_format = None

C9_DefaultsAndRate ==
    Answering("/synthesize") =>
        /\ OnlyText =>
             /\ \A i \in CallsOf("synthesize_with_qwen") :
                   /\ calls[i].voice = "default"
                   /\ calls[i].prosody = "speak normally"
                   /\ calls[i].speed = 16
             /\ \A i \in CallsOf("synthesize_with_system_tts") :
                   calls[i].voice = "default" /\ calls[i].speed = 16
             /\ \A i \in CallsOf("engine") :
                   calls[i].voice_id = 0 /\ calls[i].rate = 200
             /\ TheResp.status = 200 => TheResp.format = "wav"
             /\ (model = None /\ ~OnlyWhitespace(Get(TheBody.text))) =>
                   /\ SystemInvoked
                   /\ TheResp.status = 200 => CallsOf("engine") # {}
        /\ \A i \in CallsOf("engine") :
              /\ calls[i - 1].fn = "synthesize_with_system_tts"
              /\ 16 * calls[i].rate <= 200 * calls[i - 1].speed
              /\ 200 * calls[i - 1].speed < 16 * (calls[i].rate + 1)

C9_Witness ==
    /\ Answering("/synthesize")
    /\ OnlyText
    /\ ~MODEL_LOADED
    /\ model = None
    /\ \E i \in CallsOf("engine") :
          calls[i].voice_id = 0 /\ calls[i].rate = 200
    /\ TheResp.status = 200
    /\ TheResp.format = "wav"

(***************************************************************************)
(* C10: /clone-voice answers 404 exactly when the reference path does not  *)
(* exist, and otherwise 200 'pending' with a stub voice id; it changes     *)
(* neither the load state nor the voice registry, so the id it returns is  *)
(* not a registered voice.                                                 *)
(***************************************************************************)
CloneAnswered ==
    /\ Answering("/clone-voice")
    /\ TheBody.reference_audio_path # None
    /\ TheBody.voice_name # None

C10_CloneAnswer ==
    CloneAnswered =>
        /\ TheResp.status = 404 <=> ~Get(req).path_exists
        /\ Get(req).path_exists =>
             /\ TheResp.status = 200
             /\ TheResp.body_status = "pending"
             /\ TheResp.voice_id # None
             /\ Get(TheResp.voice_id) \notin DOMAIN VOICE_MAP

C10_CloneFrame ==
    (req = None /\ req' # None /\ Get(req').endpoint = "/clone-voice") =>
        /\ VOICE_MAP' = VOICE_MAP
        /\ model' = model
        /\ MODEL_LOADED' = MODEL_LOADED

C10_CloneIsStub == [](C10_CloneAnswer) /\ [][C10_CloneFrame]_vars

C10_Witness ==
    /\ CloneAnswered
    /\ HandleLoaded
    /\ TheResp.status = 200
    /\ TheResp.voice_id = Some("custom_my_voice_deadbeef")
    /\ VOICE_MAP = VOICE_MAP_INITIAL

(***************************************************************************)
(* C11, as claimed: when the neural backend is called with no model, or    *)
(* its generation or conversion throws, it raises to the handler and the   *)
(* system-voice backend is not called.                                     *)
(***************************************************************************)
C11_NeuralNeverFallsBack ==
    (/\ PassedValidation
     /\ CallsOf("synthesize_with_qwen") # {}
     /\ (model = None \/ NeuralFailed))
    => /\ ~SystemInvoked
       /\ TheResp.status = 500

(***************************************************************************)
(* C11, amended: the neural backend falls back itself.  The handler picks  *)
(* the first backend from the loaded flag alone; the neural backend,       *)
(* called with no model or failing in its try block, calls the             *)
(* system-voice backend once with the same text, voice and speed, and the  *)
(* answer is what that call yields.                                        *)
(***************************************************************************)
C11_NeuralFallsBackItself ==
    PassedValidation =>
        /\ calls[1].fn = IF MODEL_LOADED THEN "synthesize_with_qwen"
                         ELSE "synthesize_with_system_tts"
        /\ Cardinality(CallsOf("synthesize_with_system_tts")) <= 1
        /\ (MODEL_LOADED /\ model # None /\ ~NeuralFailed) =>
              ~SystemInvoked /\ TheResp.status = 200
        /\ (MODEL_LOADED /\ (model = None \/ NeuralFailed)) =>
              \E k \in CallsOf("synthesize_with_system_tts") :
                 /\ k > 1
                 /\ model = None => k = 2
                 /\ NeuralFailed => calls[k - 1].fn = "raise"
                 /\ calls[k].text = Get(TheBody.text)
                 /\ calls[k].voice = TheRequest.voice
                 /\ calls[k].speed = TheRequest.speed
                 /\ LET last == calls[Len(calls)]
                    IN  /\ last.of = "synthesize_with_system_tts"
                        /\ TheResp.status = IF last.fn = "return" THEN 200
                                            ELSE 500

C11_Witness ==
    /\ PassedValidation
    /\ MODEL_LOADED
    /\ model = None
    /\ calls[1].fn = "synthesize_with_qwen"
    /\ calls[2].fn = "synthesize_with_system_tts"
    /\ TheResp.status = 200

(***************************************************************************)
(* C12: the load state (flag and handle) is written by one step, the       *)
(* loader run by the startup hook, which runs at most once and before any  *)
(* request; no request is handled while the load is pending, and a step    *)
(* that handles a request leaves the load state as it found it.            *)
(***************************************************************************)
C12_NothingBeforeLoad ==
    /\ Len(loadLog) <= 1
    /\ started = "started" <=> Len(loadLog) = 1
    /\ started = "pending" =>
         /\ req = None
         /\ resp = None
         /\ healthSeen = None
         /\ tmp = {}
         /\ model = None
         /\ ~MODEL_LOADED

C12_SingleWrite ==
    /\ (model' # model \/ MODEL_LOADED' # MODEL_LOADED \/ loadLog' # loadLog) =>
          /\ started = "pending"
          /\ started' = "started"
          /\ loadLog = <<>>
          /\ Len(loadLog') = 1
          /\ req = None /\ req' = None
    /\ started # "pending" => started' = started
    /\ (req = None /\ req' # None) =>
          /\ started # "pending"
          /\ model' = model
          /\ MODEL_LOADED' = MODEL_LOADED

C12_LoadStateWrittenOnce == [](C12_NothingBeforeLoad) /\ [][C12_SingleWrite]_vars

C12_Witness ==
    /\ started = "started"
    /\ Len(loadLog) = 1
    /\ loadLog[1].ok
    /\ HandleLoaded
    /\ PassedValidation
    /\ TheResp.status = 200
    /\ healthSeen = Some(TRUE)

(***************************************************************************)
(* C13: a step that handles a request (/synthesize, /health, /clone-voice, *)
(* /), whatever its answer, and the step that completes it, leave the      *)
(* loaded flag, the model handle and VOICE_MAP unchanged; VOICE_MAP is     *)
(* always the registry the module starts with.                             *)
(***************************************************************************)
C13_Frame ==
    (req' # req \/ resp' # resp) =>
        /\ MODEL_LOADED' = MODEL_LOADED
        /\ model' = model
        /\ VOICE_MAP' = VOICE_MAP

C13_RequestsLeaveStateAlone ==
    [](VOICE_MAP = VOICE_MAP_INITIAL) /\ [][C13_Frame]_vars

C13_Witness ==
    /\ PassedValidation
    /\ HandleLoaded
    /\ NeuralFailed
    /\ TheResp.status = 500
    /\ TEMP_SYSTEM \in tmp
    /\ VOICE_MAP = VOICE_MAP_INITIAL

(***************************************************************************)
(* C14, as claimed: once a /synthesize request has been answered, with     *)
(* 200, after a fallback or with 500, neither temporary file is on disk.   *)
(***************************************************************************)
C14_TempFilesCleaned ==
    Answering("/synthesize") => tmp = {}

(***************************************************************************)
(* C15, as claimed: with several requests under way at once, a request     *)
(* that is answered is answered 200 with the audio bytes, and the sample   *)
(* rate and duration, of the file it wrote itself; and while a request has *)
(* still to read its file, the file is there and is the one it wrote.      *)
(***************************************************************************)
C15_RequestScopedTempFile ==
    HAS_PYTTSX3 =>
        \A w \in Workers :
            /\ workers[w].pc = "done" =>
                 /\ workers[w].status = 200
                 /\ workers[w].audio = Some(Own(w))
                 /\ workers[w].meta = Some(Own(w))
            /\ workers[w].pc \in {"q_written", "q_read"} =>
                 shared[TEMP_QWEN] = Some(Own(w))
            /\ workers[w].pc \in {"s_written", "s_read", "s_parsed"} =>
                 shared[TEMP_SYSTEM] = Some(Own(w))

(***************************************************************************)
(* C16: the one load attempt takes the override path exactly when          *)
(* QWEN_MODEL_PATH is set and exists; otherwise it takes the fixed model   *)
(* identifier, from the cache when the cache directory exists and by       *)
(* download when it does not.  A path that is set and does not exist does  *)
(* not make the load fail: the load goes on with the identifier.           *)
(***************************************************************************)
C16_LoaderOrder ==
    /\ Len(loadLog) <= 1
    /\ loadLog # <<>> =>
         LET l == loadLog[1]
         IN  /\ l.source = "custom_path" <=> (l.path_set /\ l.path_exists)
             /\ l.source = "cache" <=>
                  (~(l.path_set /\ l.path_exists) /\ l.cached)
             /\ l.source = "download" <=>
                  (~(l.path_set /\ l.path_exists) /\ ~l.cached)
             /\ l.ok <=> model # None
             /\ l.ok => MODEL_LOADED

C16_Witness ==
    /\ loadLog # <<>>
    /\ loadLog[1].path_set
    /\ ~loadLog[1].path_exists
    /\ loadLog[1].source = "download"
    /\ loadLog[1].ok
    /\ HandleLoaded

(***************************************************************************)
(* C17, as claimed: the instruction given to generate_voice_design is the  *)
(* request's prosodyInstruction verbatim unless that is 'speak normally',  *)
(* and 'Speak in a natural, clear voice' exactly when it is.               *)
(***************************************************************************)
C17_ProsodyVerbatim ==
    PassedValidation =>
        \A g \in CallsOf("generate_voice_design") :
            /\ TheRequest.prosody_instruction # "speak normally" =>
                 calls[g].instruct = TheRequest.prosody_instruction
            /\ TheRequest.prosody_instruction = "speak normally" =>
                 calls[g].instruct = "Speak in a natural, clear voice"

(***************************************************************************)
(* C17, amended: the instruction is the prosodyInstruction verbatim when   *)
(* that is not empty and not 'speak normally', and is 'Speak in a natural, *)
(* clear voice' when it is empty, 'speak normally' or left out.            *)
(***************************************************************************)
C17_ProsodyOrDefault ==
    PassedValidation =>
        \A g \in CallsOf("generate_voice_design") :
            LET given == IF TheBody.prosody_instruction = None
                         THEN "speak normally"
                         ELSE Get(TheBody.prosody_instruction)
            IN  /\ given \notin {"", "speak normally"} =>
                     calls[g].instruct = given
                /\ given \in {"", "speak normally"} =>
                     calls[g].instruct = "Speak in a natural, clear voice"

C17_Witness ==
    /\ PassedValidation
    /\ TheBody.prosody_instruction = Some("")
    /\ \E g \in CallsOf("generate_voice_design") :
          calls[g].instruct = "Speak in a natural, clear voice"
    /\ TheResp.status = 200

(***************************************************************************)
(* C18: with a model loaded, a model that exposes generate_voice_design    *)
(* gets that call, also when it exposes generate as well; one that exposes *)
(* only generate gets generate(text, 'English', voice); one that exposes   *)
(* neither gets no generation call and the neural attempt fails with       *)
(* 'Model has no known generation method'.                                 *)
(***************************************************************************)
C18_CapabilityDispatch ==
    (PassedValidation /\ HandleLoaded) =>
        LET caps == Get(model).caps
        IN  /\ calls[1].fn = "synthesize_with_qwen"
            /\ "generate_voice_design" \in caps =>
                 /\ calls[2].fn = "generate_voice_design"
                 /\ calls[2].text = Get(TheBody.text)
                 /\ calls[2].language = "English"
                 /\ calls[2].speaker = TheRequest.voice
                 /\ GenerationCalls = {2}
            /\ caps = {"generate"} =>
                 /\ calls[2] = [fn |-> "generate", text |-> Get(TheBody.text),
                                language |-> "English",
                                speaker |-> TheRequest.voice]
                 /\ GenerationCalls = {2}
            /\ caps = {} =>
                 /\ GenerationCalls = {}
                 /\ calls[2].fn = "raise"
                 /\ calls[2].of = "qwen_try"
                 /\ calls[2].error = "Model has no known generation method"

C18_Witness ==
    /\ PassedValidation
    /\ HandleLoaded
    /\ Get(model).caps = {"generate_voice_design", "generate"}
    /\ calls[2].fn = "generate_voice_design"
    /\ GenerationCalls = {2}
    /\ TheResp.status = 200

(***************************************************************************)
(* C19: with a model loaded, the same text, voice and prosodyInstruction   *)
(* sent with any other speed in [0.5, 2.0] to the same host gives the same *)
(* generation call and the same neural result, and when the neural attempt *)
(* succeeds the same response; the engine rate of the system voice does    *)
(* follow the speed.                                                       *)
(***************************************************************************)
IsGeneration(c) == c.fn \in {"generate_voice_design", "generate"}
IsNeuralEnd(c) == c.fn \in {"return", "raise"} /\ c.of = "qwen_try"

C19_SpeedIgnoredByNeural ==
    PassedValidation =>
        /\ HandleLoaded =>
             \A s \in {x \in Speeds \cup {SPEED_DEFAULT} : x >= 8 /\ x <= 32} :
                LET other == synthesize([TheBody EXCEPT !.speed = Some(s)],
                                        TheHost[1], TheHost[2])
                IN  /\ SelectSeq(other.calls, IsGeneration)
                         = SelectSeq(calls, IsGeneration)
                    /\ SelectSeq(other.calls, IsNeuralEnd)
                         = SelectSeq(calls, IsNeuralEnd)
                    /\ ~NeuralFailed => other.resp = TheResp
        /\ \A i \in CallsOf("engine") :
              /\ TheRequest.speed = 8 => calls[i].rate = 100
              /\ TheRequest.speed = 32 => calls[i].rate = 400

C19_Witness ==
    /\ PassedValidation
    /\ HandleLoaded
    /\ ~NeuralFailed
    /\ TheRequest.speed = 32
    /\ TheResp.status = 200
    /\ TheResp.duration_ms > 0

(***************************************************************************)
(* C20, as claimed: whatever the sample type of the model's waveform, the  *)
(* audio of a neural answer is PCM16: a float sample is clamped to         *)
(* [-1.0, 1.0] and scaled by 32767 with truncation, an integer sample is   *)
(* kept.                                                                   *)
(***************************************************************************)
C20_AlwaysPcm16 ==
    (PassedValidation /\ HandleLoaded /\ ~NeuralFailed) =>
        LET w == TheHost[1].wav
            out == TheResp.audio_data.decoded
            clamped(v) == IF v > 4 THEN 4 ELSE IF v < -4 THEN -4 ELSE v
        IN  /\ TheResp.status = 200
            /\ out.enc = "pcm16"
            /\ Len(out.data) = Len(w.samples)
            /\ \A i \in 1..Len(w.samples) :
                  out.data[i] =
                     IF w.dtype \in {"float16", "float32", "float64"}
                     THEN (clamped(w.samples[i]) * 32767) \div 4
                     ELSE w.samples[i]

(***************************************************************************)
(* C21, as claimed: the durationMs of every synthesis result, neural or    *)
(* system voice, is sampleCount / sampleRateHz * 1000 rounded to the       *)
(* nearest millisecond.                                                    *)
(***************************************************************************)
C21_DurationRounded ==
    PassedValidation =>
        \A i \in OutcomeIndexes :
            (calls[i].fn = "return" /\ calls[i].sample_rate > 0) =>
                LET N == calls[i].audio_data.nframes
                    R == calls[i].sample_rate
                    d == calls[i].duration_ms
                IN  /\ (2 * d - 1) * R <= 2 * N * 1000
                    /\ 2 * N * 1000 <= (2 * d + 1) * R

(***************************************************************************)
(* C22, as claimed: a waveform of N samples, flat or behind extra axes of  *)
(* size 1, that the model returns with a positive rate and that is written *)
(* and read back without an I/O error, is answered by the neural path with *)
(* a WAV of exactly N frames, and with durationMs 0 when N = 0.            *)
(***************************************************************************)
C22_SampleCountPreserved ==
    (/\ PassedValidation
     /\ HandleLoaded
     /\ Get(model).caps # {}
     /\ TheHost[1].gen = "ok"
     /\ TheHost[1].rate > 0
     /\ TheHost[1].io = "ok")
    => /\ ~NeuralFailed
       /\ ~SystemInvoked
       /\ TheResp.status = 200
       /\ TheResp.audio_data.decoded.nframes = Len(TheHost[1].wav.samples)
       /\ Len(TheHost[1].wav.samples) = 0 => TheResp.duration_ms = 0

(***************************************************************************)
(* C23: in the system-voice backend 'default' and 'marrvin' resolve to     *)
(* index 0, 'marlin' to 1, 'daniel' to 2 and every other name to 0; the    *)
(* voice is set on the engine when that many voices are installed and left *)
(* alone otherwise; and when the backend raises, the cause is the engine   *)
(* or the file, never the voice name.                                      *)
(***************************************************************************)
C23_VoiceResolution ==
    PassedValidation =>
        /\ \A i \in CallsOf("engine") :
              LET voice == calls[i - 1].voice
                  index == CASE voice \in {"default", "marrvin"} -> 0
                             [] voice = "marlin" -> 1
                             [] voice = "daniel" -> 2
                             [] OTHER -> 0
              IN  /\ calls[i - 1].fn = "synthesize_with_system_tts"
                  /\ voice = TheRequest.voice
                  /\ calls[i].voice_id = index
                  /\ calls[i].voice_set =
                        IF TheHost[2].nvoices > index THEN Some(index) ELSE None
        /\ \A i \in EndsOf("synthesize_with_system_tts", "raise") :
              \/ ~HAS_PYTTSX3
              \/ TheHost[2].init = "raise"
              \/ TheHost[2].run \in {"raise", "raise_after_write"}
              \/ ~TheHost[2].file.valid
              \/ TheHost[2].file.rate = 0

C23_Witness ==
    /\ PassedValidation
    /\ TheRequest.voice = "daniel"
    /\ TheHost[2].nvoices = 2
    /\ \E i \in CallsOf("engine") :
          calls[i].voice_id = 2 /\ calls[i].voice_set = None
    /\ TheResp.status = 200

(***************************************************************************)
(* C24, as claimed: the loaded flag is true only when a model handle is    *)
(* present; /health says modelLoaded with a model name only then, and      *)
(* after a failed load says modelLoaded false with no model name.          *)
(***************************************************************************)
C24_FlagOnlyWithHandle ==
    /\ MODEL_LOADED => model # None
    /\ Answering("/health") =>
         /\ TheResp.model_loaded => model # None
         /\ TheResp.model_name # None => model # None
         /\ LoadFailed => ~TheResp.model_loaded /\ TheResp.model_name = None

(***************************************************************************)
(* C25: a valid /synthesize request makes at most one generation call and  *)
(* at most one system-voice call, the generation call first; the system    *)
(* voice is called after a neural attempt only when that attempt raised,   *)
(* right after it, and never after one that returned; and the request has  *)
(* one answer, 200 or 500.                                                 *)
(***************************************************************************)
C25_AtMostOneCallEach ==
    PassedValidation =>
        /\ Cardinality(GenerationCalls) <= 1
        /\ Cardinality(CallsOf("synthesize_with_system_tts")) <= 1
        /\ Cardinality(CallsOf("engine")) <= 1
        /\ Cardinality({i \in OutcomeIndexes : calls[i].of = "qwen_try"}) <= 1
        /\ \A g \in GenerationCalls :
              \A k \in CallsOf("synthesize_with_system_tts") : g < k
        /\ \A t \in OutcomeIndexes :
              calls[t].of = "qwen_try" =>
                 /\ calls[t].fn = "return" => ~SystemInvoked /\ t = Len(calls)
                 /\ calls[t].fn = "raise" =>
                       CallsOf("synthesize_with_system_tts") = {t + 1}
        /\ resp # None
        /\ TheResp.status \in {200, 500}
        /\ LET last == calls[Len(calls)]
           IN  /\ last.fn \in {"return", "raise"}
               /\ TheResp.status = 200 <=> last.fn = "return"

C25_Witness ==
    /\ PassedValidation
    /\ HandleLoaded
    /\ GenerationCalls = {2}
    /\ calls[3].fn = "raise"
    /\ calls[4].fn = "synthesize_with_system_tts"
    /\ calls[Len(calls)].fn = "return"
    /\ Len(calls) = 6
    /\ TheResp.status = 200
====
